---------------------------- MODULE Spec2Model ----------------------------
(***************************************************************************)
(* MindAR -> WebXR hand-off of henrylin642/WebXRHit.                       *)
(*                                                                         *)
(* The repository holds four iterations of the same application module.   *)
(* The model follows the most complete one, the module text at             *)
(* src/src/SceneManager.js lines 110-807 (multi-target anchors, the        *)
(* webxrSessionStarting guard, pendingWebXRStart, the delayed              *)
(* showConfirmButton callback, lockWaitFrames and the stabilizedPose       *)
(* check of lockWorldOrigin).  Line numbers in comments refer to it.       *)
(*                                                                         *)
(* Time is counted in slots of `interval` = 50 ms (line 457): Tick lets    *)
(* one slot pass, which makes the setInterval callback due and ages the    *)
(* pending setTimeout callbacks; the callbacks themselves are separate     *)
(* actions.  Frames, marker events, clicks and the resolution of the      *)
(* session request are not tied to the clock.                              *)
(*                                                                         *)
(* Poses: positions are integer vectors in centimetres, orientations are   *)
(* rotations about the vertical axis measured in quarter turns; averages   *)
(* are exact rationals.                                                    *)
(***************************************************************************)
EXTENDS Integers, Sequences, FiniteSets, TLC

VARIABLES
    currentState,         \* line 147
    mindar,               \* life cycle of mindarThree (line 150)
    targetVisible,        \* targets the marker engine currently sees
    mindarAnchor,         \* line 158, reassigned at 366 and 391
    currentTargetIndex,   \* line 189
    poseBuffer,           \* line 159; null after lockWorldOrigin (804)
    poseStabilizeTimer,   \* line 161 with the closure's progress (455)
    confirmTimeouts,      \* pending setTimeout callbacks of line 480
    stabilizedPose,       \* line 162
    webxrSessionStarting, \* line 191
    pendingWebXRStart,    \* line 200
    requestsInFlight,     \* navigator.xr.requestSession promises pending
    sessionActive,        \* an XR session drives renderWebXR (676)
    stableFramesCount,    \* line 689
    lockWaitFrames,       \* line 690
    worldRoot,            \* sceneManager.worldRoot (SceneManager.js 10)
    ui,                   \* display state of the overlays (203-229)
    xrSupported,          \* navigator.xr is present
    lastEvent             \* what the handler that ran last reported

vars == <<currentState, mindar, targetVisible, mindarAnchor, currentTargetIndex,
          poseBuffer, poseStabilizeTimer, confirmTimeouts, stabilizedPose,
          webxrSessionStarting, pendingWebXRStart, requestsInFlight,
          sessionActive, stableFramesCount, lockWaitFrames, worldRoot, ui,
          xrSupported, lastEvent>>

---------------------------------------------------------------------------
\* Bounds of the model

\* longest poseBuffer the marker frames are allowed to build
MaxBuf == 1

---------------------------------------------------------------------------
\* Program constants

AppState == {"INIT", "MINDAR_READY", "MINDAR_TRACKING", "POSE_STABILIZING",
             "WEBXR_STARTING", "WORLD_LOCKING", "RUNNING"}

\* for (let i = 0; i < 3; i++) addAnchor(i)
NumTargets == 3

Targets == 0 .. (NumTargets - 1)

\* mindarAnchor = null
NullAnchor == -1

\* the anchor object of the stand-alone addAnchor(0) at line 366; it is not
\* one of the three anchors the loop creates
SetupAnchor == 3

\* progress += (50 / 1500) * 100 per callback, until progress >= 100.  In
\* IEEE doubles thirty additions give 99.99999999999997, so the comparison
\* first succeeds in the 31st callback.
TicksToComplete == 31

\* setTimeout(..., 1000) of showConfirmButton, in 50 ms slots
ConfirmTicks == 20

\* stableFramesCount > 10
StableFramesThreshold == 10

\* lockWaitFrames > 60
LockWaitCeiling == 60

\* TARGET_OFFSETS[i].y in centimetres (x and z are 0)
TargetOffsetY(i) == CASE i = 0 -> -29 [] i = 1 -> -87 [] OTHER -> -145

\* const WORLD_Y_OFFSET = 0.0
WORLD_Y_OFFSET == 0

\* const MAX_MARKER_DISTANCE = 5 (metres; lockWorldOrigin does not read it)
MAX_MARKER_DISTANCE == 500

---------------------------------------------------------------------------
\* Pose arithmetic

RECURSIVE Gcd(_, _)
Gcd(a, b) == IF b = 0 THEN a ELSE Gcd(b, a % b)

Abs(x) == IF x < 0 THEN -x ELSE x

\* a vector v / d with integer v and d > 0, in lowest terms
Vec(v, d) ==
    LET g == Gcd(Gcd(Gcd(Abs(v[1]), Abs(v[2])), Abs(v[3])), d)
    IN  [v |-> <<v[1] \div g, v[2] \div g, v[3] \div g>>, d |-> d \div g]

\* a rotation about Y by n / d quarter turns, in lowest terms, in (-2, 2]
Yaw(n, d) ==
    LET g  == Gcd(Abs(n), d)
        n1 == n \div g
        d1 == d \div g
        m  == n1 % (4 * d1)
        n2 == IF m > 2 * d1 THEN m - 4 * d1 ELSE m
    IN  [n |-> n2, d |-> d1]

\* THREE.Vector3.applyQuaternion for a rotation by k whole quarter turns
\* about Y: x' = x cos + z sin, z' = -x sin + z cos
RotY(k, v) ==
    CASE k % 4 = 0 -> v
      [] k % 4 = 1 -> <<v[3], v[2], -v[1]>>
      [] k % 4 = 2 -> <<-v[1], v[2], -v[3]>>
      [] OTHER     -> <<-v[3], v[2], v[1]>>

\* THREE.Quaternion.slerp(qb, 1/k) of two rotations about Y: the accumulator
\* moves 1/k of the way along the shorter arc (the sign of qb is flipped when
\* the dot product is negative)
Slerp(qa, qb, k) ==
    LET diff == Yaw(qb.n * qa.d - qa.n * qb.d, qa.d * qb.d)
    IN  Yaw(qa.n * diff.d * k + diff.n * qa.d, qa.d * diff.d * k)

\* the marker poses bufferPose can observe (after its scaling): a marker
\* 1 m ahead, and one estimated 50 m away and turned a quarter
Samples ==
    {[position |-> <<0, 0, -100>>, quaternion |-> Yaw(0, 1)],
     [position |-> <<3000, 0, -4000>>, quaternion |-> Yaw(1, 1)]}

\* the viewer poses a world-tracking frame can carry
ViewerPoses ==
    [position : {<<0, 0, 0>>}, orientation : {0}, emulatedPosition : BOOLEAN]
        \cup
    [position : {<<10, 150, 0>>}, orientation : {1}, emulatedPosition : BOOLEAN]

\* the targets the camera gets to see
TargetsInView == {0, 1}

NullPose == [isNull |-> TRUE, position |-> [v |-> <<0, 0, 0>>, d |-> 1],
             quaternion |-> [n |-> 0, d |-> 1]]
NullBuffer == [isNull |-> TRUE, items |-> <<>>]
Buffer(items) == [isNull |-> FALSE, items |-> items]

RECURSIVE SumPositions(_)
SumPositions(s) ==
    IF s = <<>> THEN <<0, 0, 0>>
    ELSE LET r == SumPositions(Tail(s))
             p == Head(s).position
         IN  <<p[1] + r[1], p[2] + r[2], p[3] + r[3]>>

\* a fold whose accumulator starts as new THREE.Quaternion() and takes the
\* first sample as one more interpolation step
RECURSIVE SlerpFold_FromIdentity(_, _)
SlerpFold_FromIdentity(s, i) ==
    IF i = 0 THEN Yaw(0, 1)
    ELSE Slerp(SlerpFold_FromIdentity(s, i - 1), s[i].quaternion, i + 1)

\* a fold that interpolates by 1/i instead of 1/(i+1)
RECURSIVE SlerpFold_Factor(_, _)
SlerpFold_Factor(s, i) ==
    IF i = 1 THEN s[1].quaternion
    ELSE Slerp(SlerpFold_Factor(s, i - 1), s[i].quaternion, i - 1)

\* avgQuat = poseBuffer[0]; for i = 1 .. length-1: avgQuat.slerp(q_i, 1/(i+1))
RECURSIVE SlerpFold(_, _)
SlerpFold(s, i) ==
    IF i = 1 THEN s[1].quaternion
    ELSE Slerp(SlerpFold(s, i - 1), s[i].quaternion, i)

\* a finalizeStabilization that forgets avgPos.divideScalar
AveragePose_NoDivide(items) ==
    [isNull     |-> FALSE,
     position   |-> Vec(SumPositions(items), 1),
     quaternion |-> SlerpFold(items, Len(items))]

\* the pose finalizeStabilization computes from a non-empty buffer
AveragePose(items) ==
    [isNull     |-> FALSE,
     position   |-> Vec(SumPositions(items), Len(items)),
     quaternion |-> SlerpFold(items, Len(items))]

---------------------------------------------------------------------------
\* Initial state: the module's top-level declarations, then init()

NoUI == [overlay |-> TRUE, mindarScanning |-> FALSE, transition |-> FALSE,
         webxrStartOverlay |-> FALSE, runtime |-> FALSE]

IdleTimer == [active |-> FALSE, due |-> FALSE, progress |-> 0]

\* sceneManager is null until setupWebXRScene builds one
NoWorldRoot == [exists |-> FALSE, position |-> Vec(<<0, 0, 0>>, 1),
                quaternion |-> Yaw(0, 1), visible |-> FALSE]

Init ==
    /\ currentState = "INIT"
    /\ mindar = "none"
    /\ targetVisible = {}
    /\ mindarAnchor = NullAnchor
    /\ currentTargetIndex = 0
    /\ poseBuffer = Buffer(<<>>)
    /\ poseStabilizeTimer = IdleTimer
    /\ confirmTimeouts = {}
    /\ stabilizedPose = NullPose
    /\ webxrSessionStarting = FALSE
    /\ pendingWebXRStart = FALSE
    /\ requestsInFlight = 0
    /\ sessionActive = FALSE
    /\ stableFramesCount = 0
    /\ lockWaitFrames = 0
    /\ worldRoot = NoWorldRoot
    /\ ui = NoUI
    /\ xrSupported \in BOOLEAN
    /\ lastEvent = "none"

---------------------------------------------------------------------------
\* Phase 1: MindAR image tracking

markerVars == <<mindar, targetVisible, mindarAnchor, currentTargetIndex>>
timerVars  == <<poseStabilizeTimer, confirmTimeouts>>
xrVars     == <<webxrSessionStarting, pendingWebXRStart, requestsInFlight,
                sessionActive>>
lockVars   == <<stableFramesCount, lockWaitFrames, worldRoot>>

\* click on #ar-button: startMindARPhase up to `await mindarThree.start()`.
\* The button lives in #overlay, which the handler hides.  The MindARThree
\* constructor may throw (ctorThrows), and then the handler returns.
StartMindARPhase(ctorThrows) ==
    /\ ui.overlay
    /\ ui' = [ui EXCEPT !.overlay = FALSE, !.mindarScanning = TRUE]
    /\ currentState' = "MINDAR_READY"
    /\ IF ctorThrows
       THEN /\ lastEvent' = "MindAR Init Failed"
            /\ UNCHANGED <<mindar, mindarAnchor>>
       ELSE /\ mindar' = "starting"
            /\ mindarAnchor' = SetupAnchor
            /\ lastEvent' = "none"
    /\ UNCHANGED <<targetVisible, currentTargetIndex, poseBuffer, timerVars,
                   stabilizedPose, xrVars, lockVars, xrSupported>>

\* mindarThree.start() resolves: the animation loop is installed
MindARStarted ==
    /\ mindar = "starting"
    /\ mindar' = "running"
    /\ lastEvent' = "none"
    /\ UNCHANGED <<currentState, targetVisible, mindarAnchor, currentTargetIndex,
                   poseBuffer, timerVars, stabilizedPose, xrVars, lockVars, ui,
                   xrSupported>>

\* mindarThree.start() rejects: caught, reported, nothing else changes
MindARStartFailed ==
    /\ mindar = "starting"
    /\ mindar' = "failed"
    /\ lastEvent' = "MindAR Start Failed"
    /\ UNCHANGED <<currentState, targetVisible, mindarAnchor, currentTargetIndex,
                   poseBuffer, timerVars, stabilizedPose, xrVars, lockVars, ui,
                   xrSupported>>

\* beginPoseStabilization: a new interval timer replaces the handle
BeginTimer == [active |-> TRUE, due |-> FALSE, progress |-> 0]

\* clearInterval(poseStabilizeTimer)
ClearInterval(t) == [t EXCEPT !.active = FALSE, !.due = FALSE]

\* an onTargetFound without the `currentState === MINDAR_READY` test
OnTargetFound_AnyPhase(i) ==
    /\ mindar = "running"
    /\ i \notin targetVisible
    /\ targetVisible' = targetVisible \cup {i}
    /\ lastEvent' = "none"
    /\ currentTargetIndex' = i
    /\ mindarAnchor' = i
    /\ currentState' = "POSE_STABILIZING"
    /\ ui' = [ui EXCEPT !.mindarScanning = FALSE, !.transition = TRUE]
    /\ poseBuffer' = Buffer(<<>>)
    /\ poseStabilizeTimer' = BeginTimer
    /\ UNCHANGED <<mindar, confirmTimeouts, stabilizedPose, xrVars, lockVars,
                   xrSupported>>

\* anchor.onTargetFound of target i
OnTargetFound(i) ==
    /\ mindar = "running"
    /\ i \notin targetVisible
    /\ targetVisible' = targetVisible \cup {i}
    /\ lastEvent' = "none"
    /\ IF currentState = "MINDAR_READY"
       THEN /\ currentTargetIndex' = i
            /\ mindarAnchor' = i
            \* currentState = MINDAR_TRACKING, then beginPoseStabilization()
            /\ currentState' = "POSE_STABILIZING"
            /\ ui' = [ui EXCEPT !.mindarScanning = FALSE, !.transition = TRUE]
            /\ poseBuffer' = Buffer(<<>>)
            /\ poseStabilizeTimer' = BeginTimer
       ELSE UNCHANGED <<currentTargetIndex, mindarAnchor, currentState, ui,
                        poseBuffer, poseStabilizeTimer>>
    /\ UNCHANGED <<mindar, confirmTimeouts, stabilizedPose, xrVars, lockVars,
                   xrSupported>>

\* cancelPoseStabilization: clears the interval and resets the overlays; it
\* touches neither poseBuffer nor the setTimeout of showConfirmButton
CancelPoseStabilization ==
    /\ poseStabilizeTimer' = ClearInterval(poseStabilizeTimer)
    /\ ui' = [ui EXCEPT !.transition = FALSE, !.mindarScanning = TRUE]
\* an onTargetLost without the `mindarAnchor === anchor` test
OnTargetLost_AnyTarget(i) ==
    /\ mindar = "running"
    /\ i \in targetVisible
    /\ targetVisible' = targetVisible \ {i}
    /\ lastEvent' = "none"
    /\ IF currentState \in {"MINDAR_TRACKING", "POSE_STABILIZING"}
       THEN /\ CancelPoseStabilization
            /\ currentState' = "MINDAR_READY"
       ELSE UNCHANGED <<poseStabilizeTimer, ui, currentState>>
    /\ UNCHANGED <<mindar, mindarAnchor, currentTargetIndex, poseBuffer,
                   confirmTimeouts, stabilizedPose, xrVars, lockVars, xrSupported>>

\* anchor.onTargetLost of target i
OnTargetLost(i) ==
    /\ mindar = "running"
    /\ i \in targetVisible
    /\ targetVisible' = targetVisible \ {i}
    /\ lastEvent' = "none"
    /\ IF /\ currentState \in {"MINDAR_TRACKING", "POSE_STABILIZING"}
          /\ mindarAnchor = i
       THEN /\ CancelPoseStabilization
            /\ currentState' = "MINDAR_READY"
       ELSE UNCHANGED <<poseStabilizeTimer, ui, currentState>>
    /\ UNCHANGED <<mindar, mindarAnchor, currentTargetIndex, poseBuffer,
                   confirmTimeouts, stabilizedPose, xrVars, lockVars, xrSupported>>

\* an animation loop that calls bufferPose without the phase test
MindARFrame_AnyPhase(sample) ==
    /\ mindar = "running"
    /\ lastEvent' = "none"
    /\ Len(poseBuffer.items) < MaxBuf
    /\ poseBuffer' = Buffer(Append(poseBuffer.items, sample))
    /\ UNCHANGED <<currentState, markerVars, timerVars, stabilizedPose, xrVars,
                   lockVars, ui, xrSupported>>

\* one run of the MindAR animation loop; in POSE_STABILIZING bufferPose
\* pushes the pose of the active anchor
MindARFrame(sample) ==
    /\ mindar = "running"
    /\ lastEvent' = "none"
    /\ IF currentState = "POSE_STABILIZING"
       THEN /\ Len(poseBuffer.items) < MaxBuf
            /\ poseBuffer' = Buffer(Append(poseBuffer.items, sample))
       ELSE UNCHANGED poseBuffer
    /\ UNCHANGED <<currentState, markerVars, timerVars, stabilizedPose, xrVars,
                   lockVars, ui, xrSupported>>

---------------------------------------------------------------------------
\* Phase 3: transition to WebXR

\* startWebXRSession up to its await: the re-entrancy guard, the
\* navigator.xr test, then the request
\* a startWebXRSession without the webxrSessionStarting guard
StartWebXRSession_Unguarded ==
    IF ~xrSupported
    THEN /\ webxrSessionStarting' = FALSE
         /\ UNCHANGED requestsInFlight
         /\ lastEvent' = "WebXR not supported"
    ELSE /\ webxrSessionStarting' = TRUE
         /\ requestsInFlight' = requestsInFlight + 1
         /\ lastEvent' = "session requested"

StartWebXRSession ==
    IF webxrSessionStarting
    THEN /\ UNCHANGED <<webxrSessionStarting, requestsInFlight>>
         /\ lastEvent' = "start ignored"
    ELSE IF ~xrSupported
    THEN /\ webxrSessionStarting' = FALSE
         /\ UNCHANGED requestsInFlight
         /\ lastEvent' = "WebXR not supported"
    ELSE /\ webxrSessionStarting' = TRUE
         /\ requestsInFlight' = requestsInFlight + 1
         /\ lastEvent' = "session requested"

\* transitionToWebXR: the marker engine is stopped and disposed, then the
\* session is requested.  The interval timer and the pending timeouts are
\* left as they are.
\* a transitionToWebXR that leaves the MindAR engine and its loop running
TransitionToWebXR_NoStop ==
    /\ currentState' = "WEBXR_STARTING"
    /\ UNCHANGED <<mindar, targetVisible>>
    /\ StartWebXRSession

TransitionToWebXR ==
    /\ currentState' = "WEBXR_STARTING"
    /\ mindar' = "stopped"
    /\ targetVisible' = {}
    /\ StartWebXRSession

\* finalizeStabilization.  Reading poseBuffer.length of a null poseBuffer
\* throws a TypeError, which ends the callback
FinalizeStabilization ==
    IF poseBuffer.isNull
    THEN /\ lastEvent' = "TypeError"
         /\ UNCHANGED <<currentState, mindar, targetVisible, poseStabilizeTimer,
                        ui, stabilizedPose, webxrSessionStarting, requestsInFlight>>
    ELSE IF Len(poseBuffer.items) = 0
    THEN /\ lastEvent' = "No poses buffered!"
         /\ CancelPoseStabilization
         /\ UNCHANGED <<currentState, mindar, targetVisible, stabilizedPose,
                        webxrSessionStarting, requestsInFlight>>
    ELSE /\ stabilizedPose' = AveragePose(poseBuffer.items)
         /\ TransitionToWebXR
         /\ UNCHANGED <<poseStabilizeTimer, ui>>

---------------------------------------------------------------------------
\* Phase 2: the timers of pose stabilization

\* 50 ms pass: the interval callback becomes due and the pending timeouts
\* age.  No slot passes while a callback that is due has not run.
Tick ==
    /\ poseStabilizeTimer.active \/ confirmTimeouts # {}
    /\ ~poseStabilizeTimer.due
    /\ ConfirmTicks \notin confirmTimeouts
    /\ poseStabilizeTimer' =
           [poseStabilizeTimer EXCEPT !.due = poseStabilizeTimer.active]
    /\ confirmTimeouts' = {e + 1 : e \in confirmTimeouts}
    /\ lastEvent' = "none"
    /\ UNCHANGED <<currentState, markerVars, poseBuffer, stabilizedPose, xrVars,
                   lockVars, ui, xrSupported>>

\* the setInterval callback of beginPoseStabilization; on completion it
\* clears the interval and showConfirmButton schedules finalizeStabilization
\* one second later
PoseStabilizeTimerFired ==
    /\ poseStabilizeTimer.active
    /\ poseStabilizeTimer.due
    /\ LET p == poseStabilizeTimer.progress + 1
       IN  IF p >= TicksToComplete
           THEN /\ poseStabilizeTimer' =
                       [active |-> FALSE, due |-> FALSE, progress |-> p]
                /\ confirmTimeouts' = confirmTimeouts \cup {0}
           ELSE /\ poseStabilizeTimer' =
                       [active |-> TRUE, due |-> FALSE, progress |-> p]
                /\ UNCHANGED confirmTimeouts
    /\ lastEvent' = "none"
    /\ UNCHANGED <<currentState, markerVars, poseBuffer, stabilizedPose, xrVars,
                   lockVars, ui, xrSupported>>

\* the setTimeout callback of showConfirmButton
ConfirmTimeoutFired ==
    /\ ConfirmTicks \in confirmTimeouts
    /\ confirmTimeouts' = confirmTimeouts \ {ConfirmTicks}
    /\ FinalizeStabilization
    /\ UNCHANGED <<mindarAnchor, currentTargetIndex, poseBuffer,
                   pendingWebXRStart, sessionActive, lockVars, xrSupported>>

\* click on #webxr-start-btn, which lives in #webxr-start-overlay
WebXRStartClick ==
    /\ ui.webxrStartOverlay
    /\ pendingWebXRStart' = FALSE
    /\ ui' = [ui EXCEPT !.webxrStartOverlay = FALSE]
    /\ StartWebXRSession
    /\ UNCHANGED <<currentState, markerVars, poseBuffer, timerVars,
                   stabilizedPose, sessionActive, lockVars, xrSupported>>

\* a setupWebXRScene that forgets `worldRoot.visible = false` (a new
\* THREE.Group is visible)
FreshWorldRoot_Visible == [exists |-> TRUE, position |-> Vec(<<0, 0, 0>>, 1),
                           quaternion |-> Yaw(0, 1), visible |-> TRUE]

\* setupWebXRScene: a new SceneManager whose worldRoot is hidden
FreshWorldRoot == [exists |-> TRUE, position |-> Vec(<<0, 0, 0>>, 1),
                   quaternion |-> Yaw(0, 1), visible |-> FALSE]

\* requestSession resolves: setupWebXRScene(session)
SessionStartSucceeded ==
    /\ requestsInFlight > 0
    /\ requestsInFlight' = requestsInFlight - 1
    /\ worldRoot' = FreshWorldRoot
    /\ currentState' = "WORLD_LOCKING"
    /\ sessionActive' = TRUE
    /\ lastEvent' = "none"
    /\ UNCHANGED <<markerVars, poseBuffer, timerVars, stabilizedPose,
                   webxrSessionStarting, pendingWebXRStart, stableFramesCount,
                   lockWaitFrames, ui, xrSupported>>

\* requestSession rejects; the retry overlay is shown only when the message
\* mentions 'user activation'
SessionStartFailed(userActivation) ==
    /\ requestsInFlight > 0
    /\ requestsInFlight' = requestsInFlight - 1
    /\ lastEvent' = "WebXR Start Failed"
    /\ IF userActivation
       THEN /\ pendingWebXRStart' = TRUE
            /\ ui' = [ui EXCEPT !.webxrStartOverlay = TRUE]
       ELSE UNCHANGED <<pendingWebXRStart, ui>>
    /\ webxrSessionStarting' = FALSE
    /\ UNCHANGED <<currentState, markerVars, poseBuffer, timerVars,
                   stabilizedPose, sessionActive, lockVars, xrSupported>>

---------------------------------------------------------------------------
\* Phases 4 and 5: world locking and running

\* markerWorldPos = cameraPosition + (relPos + targetToOrigin rotated by
\* relQuat) rotated by cameraQuaternion, then y += WORLD_Y_OFFSET.
\* targetToOrigin = -TARGET_OFFSETS[currentTargetIndex] lies on the Y axis,
\* which a rotation about Y leaves in place.
MarkerWorldPos(pose, viewerPose, idx) ==
    LET d      == pose.position.d
        rel    == pose.position.v
        origin == <<rel[1], rel[2] - d * TargetOffsetY(idx), rel[3]>>
        rot    == RotY(viewerPose.orientation, origin)
        cam    == viewerPose.position
    IN  Vec(<<d * cam[1] + rot[1],
              d * (cam[2] + WORLD_Y_OFFSET) + rot[2],
              d * cam[3] + rot[3]>>, d)

\* markerWorldRot = cameraQuaternion * relQuat
MarkerWorldRot(pose, viewerPose) ==
    Yaw(viewerPose.orientation * pose.quaternion.d + pose.quaternion.n,
        pose.quaternion.d)

\* ALIGN_MODE "gravity+board": the basis (up x fwd, up, fwd) built from the
\* forward axis projected on the horizontal plane; of a rotation about Y it
\* keeps the whole rotation
GravityBoardRotation(q) == Yaw(q.n, q.d)

\* a lockWorldOrigin without the stabilizedPose check: the pose reads as
\* the identity and the lock goes through
LockWorldOrigin_Unchecked(viewerPose, waited) ==
    /\ lockWaitFrames' = 0
    /\ worldRoot' =
           [exists     |-> TRUE,
            position   |-> MarkerWorldPos(stabilizedPose, viewerPose,
                                          currentTargetIndex),
            quaternion |-> GravityBoardRotation(
                               MarkerWorldRot(stabilizedPose, viewerPose)),
            visible    |-> TRUE]
    /\ ui' = [ui EXCEPT !.transition = FALSE, !.runtime = TRUE]
    /\ currentState' = "RUNNING"
    /\ stabilizedPose' = NullPose
    /\ poseBuffer' = NullBuffer
    /\ lastEvent' = "Transition Complete."

\* a lockWorldOrigin that places and shows the root but returns before
\* `currentState = AppState.RUNNING` and the clearing of the pose
LockWorldOrigin_StaysLocking(viewerPose, waited) ==
    IF stabilizedPose.isNull
    THEN /\ lastEvent' = "No stabilized pose; cannot lock world origin."
         /\ lockWaitFrames' = waited
         /\ UNCHANGED <<worldRoot, ui, currentState, stabilizedPose, poseBuffer>>
    ELSE /\ lockWaitFrames' = 0
         /\ worldRoot' =
                [exists     |-> TRUE,
                 position   |-> MarkerWorldPos(stabilizedPose, viewerPose,
                                               currentTargetIndex),
                 quaternion |-> GravityBoardRotation(
                                    MarkerWorldRot(stabilizedPose, viewerPose)),
                 visible    |-> TRUE]
         /\ ui' = [ui EXCEPT !.transition = FALSE, !.runtime = TRUE]
         /\ UNCHANGED <<currentState, stabilizedPose, poseBuffer>>
         /\ lastEvent' = "Transition Complete."

\* a lockWorldOrigin that forgets `stabilizedPose = null`
LockWorldOrigin_KeepsPose(viewerPose, waited) ==
    IF stabilizedPose.isNull
    THEN /\ lastEvent' = "No stabilized pose; cannot lock world origin."
         /\ lockWaitFrames' = waited
         /\ UNCHANGED <<worldRoot, ui, currentState, stabilizedPose, poseBuffer>>
    ELSE /\ lockWaitFrames' = 0
         /\ worldRoot' =
                [exists     |-> TRUE,
                 position   |-> MarkerWorldPos(stabilizedPose, viewerPose,
                                               currentTargetIndex),
                 quaternion |-> GravityBoardRotation(
                                    MarkerWorldRot(stabilizedPose, viewerPose)),
                 visible    |-> TRUE]
         /\ ui' = [ui EXCEPT !.transition = FALSE, !.runtime = TRUE]
         /\ currentState' = "RUNNING"
         /\ UNCHANGED stabilizedPose
         /\ poseBuffer' = NullBuffer
         /\ lastEvent' = "Transition Complete."

\* lockWorldOrigin(viewerPose), called with lockWaitFrames already counted
\* up to `waited`
LockWorldOrigin(viewerPose, waited) ==
    IF stabilizedPose.isNull
    THEN /\ lastEvent' = "No stabilized pose; cannot lock world origin."
         /\ lockWaitFrames' = waited
         /\ UNCHANGED <<worldRoot, ui, currentState, stabilizedPose, poseBuffer>>
    ELSE /\ lockWaitFrames' = 0
         /\ worldRoot' =
                [exists     |-> TRUE,
                 position   |-> MarkerWorldPos(stabilizedPose, viewerPose,
                                               currentTargetIndex),
                 quaternion |-> GravityBoardRotation(
                                    MarkerWorldRot(stabilizedPose, viewerPose)),
                 visible    |-> TRUE]
         /\ ui' = [ui EXCEPT !.transition = FALSE, !.runtime = TRUE]
         /\ currentState' = "RUNNING"
         /\ stabilizedPose' = NullPose
         /\ poseBuffer' = NullBuffer
         /\ lastEvent' = "Transition Complete."

\* a lock condition that trusts the tracking after half the frames
LockDue_Early(stable, waited) ==
    stable > StableFramesThreshold \div 2 \/ waited > LockWaitCeiling

\* a lock condition that needs one stable frame more
LockDue_Late(stable, waited) ==
    stable > StableFramesThreshold + 1 \/ waited > LockWaitCeiling

\* the lock condition of renderWebXR
LockDue(stable, waited) ==
    stable > StableFramesThreshold \/ waited > LockWaitCeiling

\* stableFramesCount after a frame that carries a viewer pose
CountStable(viewerPose) ==
    IF ~viewerPose.emulatedPosition THEN stableFramesCount + 1 ELSE 0

\* renderWebXR(timestamp, frame) with a frame whose getViewerPose is non-null
RenderWebXR(viewerPose) ==
    /\ sessionActive
    /\ IF currentState = "WORLD_LOCKING"
       THEN LET waited == lockWaitFrames + 1
                stable == CountStable(viewerPose)
            IN  /\ stableFramesCount' = stable
                /\ IF LockDue(stable, waited)
                   THEN LockWorldOrigin(viewerPose, waited)
                   ELSE /\ lockWaitFrames' = waited
                        /\ lastEvent' = "none"
                        /\ UNCHANGED <<worldRoot, ui, currentState,
                                       stabilizedPose, poseBuffer>>
       ELSE /\ lastEvent' = "none"
            /\ UNCHANGED <<stableFramesCount, lockWaitFrames, worldRoot, ui,
                           currentState, stabilizedPose, poseBuffer>>
    /\ UNCHANGED <<markerVars, timerVars, xrVars, xrSupported>>
\* a renderWebXR that treats a missing viewer pose in WORLD_LOCKING as a
\* degraded frame
RenderWebXRNoPose_Degraded ==
    /\ sessionActive
    /\ lastEvent' = "none"
    /\ stableFramesCount' = IF currentState = "WORLD_LOCKING" THEN 0
                            ELSE stableFramesCount
    /\ UNCHANGED <<currentState, markerVars, poseBuffer, timerVars,
                   stabilizedPose, xrVars, lockWaitFrames, worldRoot, ui,
                   xrSupported>>

\* renderWebXR without a frame, or with a frame that has no viewer pose:
\* nothing but rendering happens
RenderWebXRNoPose ==
    /\ sessionActive
    /\ lastEvent' = "none"
    /\ UNCHANGED <<currentState, markerVars, poseBuffer, timerVars,
                   stabilizedPose, xrVars, lockVars, ui, xrSupported>>

\* location.reload(): the page starts again from its top-level declarations
Reload ==
    /\ currentState' = "INIT"
    /\ mindar' = "none"
    /\ targetVisible' = {}
    /\ mindarAnchor' = NullAnchor
    /\ currentTargetIndex' = 0
    /\ poseBuffer' = Buffer(<<>>)
    /\ poseStabilizeTimer' = IdleTimer
    /\ confirmTimeouts' = {}
    /\ stabilizedPose' = NullPose
    /\ webxrSessionStarting' = FALSE
    /\ pendingWebXRStart' = FALSE
    /\ requestsInFlight' = 0
    /\ sessionActive' = FALSE
    /\ stableFramesCount' = 0
    /\ lockWaitFrames' = 0
    /\ worldRoot' = NoWorldRoot
    /\ ui' = NoUI
    /\ lastEvent' = "none"
    /\ UNCHANGED xrSupported
\* a session 'end' listener that only sets the phase instead of reloading
SessionEnded_NoReload ==
    /\ sessionActive
    /\ sessionActive' = FALSE
    /\ currentState' = "INIT"
    /\ lastEvent' = "none"
    /\ UNCHANGED <<markerVars, poseBuffer, timerVars, stabilizedPose,
                   webxrSessionStarting, pendingWebXRStart, requestsInFlight,
                   lockVars, ui, xrSupported>>

\* the session's 'end' event
SessionEnded ==
    /\ sessionActive
    /\ Reload

\* click on #exit-ar-btn of the runtime UI
ExitClick ==
    /\ ui.runtime
    /\ Reload

---------------------------------------------------------------------------
Next ==
    \/ \E ctorThrows \in BOOLEAN : StartMindARPhase(ctorThrows)
    \/ MindARStarted
    \/ MindARStartFailed
    \/ \E i \in TargetsInView : OnTargetFound(i)
    \/ \E i \in TargetsInView : OnTargetLost(i)
    \/ \E sample \in Samples : MindARFrame(sample)
    \/ Tick
    \/ PoseStabilizeTimerFired
    \/ ConfirmTimeoutFired
    \/ WebXRStartClick
    \/ SessionStartSucceeded
    \/ \E userActivation \in BOOLEAN : SessionStartFailed(userActivation)
    \/ \E viewerPose \in ViewerPoses : RenderWebXR(viewerPose)
    \/ RenderWebXRNoPose
    \/ SessionEnded
    \/ ExitClick

Spec == Init /\ [][Next]_vars

TypeOK ==
    /\ currentState \in AppState
    /\ mindar \in {"none", "starting", "running", "failed", "stopped"}
    /\ targetVisible \subseteq Targets
    /\ mindarAnchor \in Targets \cup {NullAnchor, SetupAnchor}
    /\ currentTargetIndex \in Targets
    /\ poseBuffer.isNull \in BOOLEAN
    /\ Len(poseBuffer.items) <= MaxBuf
    /\ poseStabilizeTimer.progress \in 0 .. TicksToComplete
    /\ confirmTimeouts \subseteq 0 .. ConfirmTicks
    /\ requestsInFlight \in 0 .. 1
    /\ stableFramesCount \in 0 .. (StableFramesThreshold + 1)
    /\ lockWaitFrames \in 0 .. LockWaitCeiling

---------------------------------------------------------------------------
\* Claims

\* C1: the content root is visible only in RUNNING, and only the step from
\* WORLD_LOCKING to RUNNING (lockWorldOrigin called by renderWebXR) makes it
\* visible or assigns its position or orientation.
C1_ContentGuard ==
    /\ [](worldRoot.visible => currentState = "RUNNING")
    /\ [][(/\ worldRoot'.exists
           /\ \/ worldRoot'.visible /\ ~worldRoot.visible
              \/ worldRoot'.position # worldRoot.position
              \/ worldRoot'.quaternion # worldRoot.quaternion)
          => /\ currentState = "WORLD_LOCKING"
             /\ currentState' = "RUNNING"
             /\ \E viewerPose \in ViewerPoses : RenderWebXR(viewerPose)]_vars

C1_Witness ==
    /\ currentState = "RUNNING"
    /\ worldRoot.visible
    /\ worldRoot.position # FreshWorldRoot.position

\* C2: a targetLost of the active target during POSE_STABILIZING moves the
\* phase to MINDAR_READY at once, and from MINDAR_READY the aborted attempt
\* neither computes a stabilized pose nor moves the phase to WEBXR_STARTING.
C2_CancelIsFinal ==
    [][/\ (/\ currentState = "POSE_STABILIZING"
           /\ OnTargetLost(mindarAnchor))
          => currentState' = "MINDAR_READY"
       /\ currentState = "MINDAR_READY"
          => /\ currentState' # "WEBXR_STARTING"
             /\ stabilizedPose' = stabilizedPose]_vars

C4_LockByCeiling ==
    [][/\ currentState = "WORLD_LOCKING"
          => currentState' \in {"WORLD_LOCKING", "RUNNING", "INIT"}
       /\ \A viewerPose \in ViewerPoses :
            (currentState = "WORLD_LOCKING" /\ RenderWebXR(viewerPose))
            => \/ currentState' = "RUNNING"
               \/ lockWaitFrames' = lockWaitFrames + 1
       /\ lockWaitFrames' <= LockWaitCeiling]_vars

\* C5, counting 10 frames: the 10th consecutive tracked frame in
\* WORLD_LOCKING commits the anchor.
C5_LockOnTenthFrame ==
    [][(/\ currentState = "WORLD_LOCKING"
        /\ ~stabilizedPose.isNull
        /\ stableFramesCount = StableFramesThreshold - 1
        /\ stableFramesCount' = StableFramesThreshold)
       => (currentState' = "RUNNING" /\ worldRoot'.visible)]_vars

\* C5, counting 11 frames: the 11th consecutive tracked frame in
\* WORLD_LOCKING commits
\* the anchor: the content root gets the computed transform and becomes
\* visible, the phase is RUNNING.
C5_LockOnEleventhFrame ==
    [][\A viewerPose \in ViewerPoses :
        (/\ currentState = "WORLD_LOCKING"
         /\ ~stabilizedPose.isNull
         /\ stableFramesCount = StableFramesThreshold
         /\ ~viewerPose.emulatedPosition
         /\ RenderWebXR(viewerPose))
        => /\ currentState' = "RUNNING"
           /\ worldRoot'.visible
           /\ worldRoot'.position =
                  MarkerWorldPos(stabilizedPose, viewerPose, currentTargetIndex)
           /\ worldRoot'.quaternion =
                  GravityBoardRotation(MarkerWorldRot(stabilizedPose, viewerPose))]_vars

C5_Witness ==
    /\ currentState = "RUNNING"
    /\ stableFramesCount = StableFramesThreshold + 1
    /\ lockWaitFrames = 0
    /\ lastEvent = "Transition Complete."

\* C6: at most one session request is in flight, and a startWebXRSession
\* call made while one is in flight (from the start button or from a late
\* finalizeStabilization) issues no request and leaves the flag alone; the
\* button's call leaves the phase and everything but its own overlay
\* bookkeeping alone.
C6_OneRequestInFlight ==
    /\ [](requestsInFlight <= 1)
    /\ [][/\ (requestsInFlight = 1 /\ (WebXRStartClick \/ ConfirmTimeoutFired))
             => UNCHANGED <<requestsInFlight, webxrSessionStarting>>
          /\ (requestsInFlight = 1 /\ WebXRStartClick)
             => UNCHANGED <<currentState, markerVars, poseBuffer, timerVars,
                            stabilizedPose, sessionActive, lockVars>>]_vars

C6_Witness ==
    /\ requestsInFlight = 1
    /\ lastEvent = "start ignored"

\* C7: whenever the phase is WEBXR_STARTING and no request is in flight (the
\* start failed), the start guard is cleared, a retry is pending and the
\* start overlay is shown.
C7_RetryableAfterFailure ==
    (currentState = "WEBXR_STARTING" /\ requestsInFlight = 0)
    => (~webxrSessionStarting /\ pendingWebXRStart /\ ui.webxrStartOverlay)

\* C8: after a failed start (WEBXR_STARTING, guard cleared, nothing in
\* flight) a new session request is issued only by a click on the start
\* button.
C8_RetryOnlyByClick ==
    [][(/\ currentState = "WEBXR_STARTING"
        /\ ~webxrSessionStarting
        /\ requestsInFlight = 0
        /\ requestsInFlight' > 0)
       => WebXRStartClick]_vars

\* C9: when the confirm timeout fires in POSE_STABILIZING with an empty pose
\* buffer, the error is reported, no stabilized pose is produced, the phase
\* does not become WEBXR_STARTING and is MINDAR_READY afterwards.
C9_EmptyBufferBackToReady ==
    [][(/\ currentState = "POSE_STABILIZING"
        /\ ~poseBuffer.isNull
        /\ Len(poseBuffer.items) = 0
        /\ ConfirmTimeoutFired)
       => /\ lastEvent' = "No poses buffered!"
          /\ stabilizedPose' = stabilizedPose
          /\ currentState' # "WEBXR_STARTING"
          /\ currentState' = "MINDAR_READY"]_vars

---------------------------------------------------------------------------
\* lockWorldOrigin on its own: called in WORLD_LOCKING from every value of
\* the globals it reads, stabilizedPose = null included.

LockInit ==
    /\ currentState = "WORLD_LOCKING"
    /\ mindar = "stopped"
    /\ targetVisible = {}
    /\ currentTargetIndex \in Targets
    /\ mindarAnchor = currentTargetIndex
    /\ poseBuffer \in {Buffer(<<sample>>) : sample \in Samples}
    /\ poseStabilizeTimer = IdleTimer
    /\ confirmTimeouts = {}
    /\ stabilizedPose \in {NullPose} \cup {AveragePose(<<sample>>) : sample \in Samples}
    /\ webxrSessionStarting = TRUE
    /\ pendingWebXRStart = FALSE
    /\ requestsInFlight = 0
    /\ sessionActive = TRUE
    /\ stableFramesCount \in 0 .. StableFramesThreshold + 1
    /\ lockWaitFrames \in 1 .. LockWaitCeiling + 1
    /\ worldRoot = FreshWorldRoot
    /\ ui = [NoUI EXCEPT !.overlay = FALSE, !.transition = TRUE]
    /\ xrSupported = TRUE
    /\ lastEvent = "none"

LockWorldOriginCall(viewerPose) ==
    /\ currentState = "WORLD_LOCKING"
    /\ LockWorldOrigin(viewerPose, lockWaitFrames)
    /\ UNCHANGED <<markerVars, timerVars, xrVars, stableFramesCount, xrSupported>>

LockNext == \E viewerPose \in ViewerPoses : LockWorldOriginCall(viewerPose)

LockSpec == LockInit /\ [][LockNext]_vars

\* C10: lockWorldOrigin called while stabilizedPose is null reports the
\* error and changes nothing: the content root keeps its transform and stays
\* hidden, the phase stays WORLD_LOCKING, no pose appears.
C10_RejectWithoutPose ==
    [][\A viewerPose \in ViewerPoses :
        (stabilizedPose.isNull /\ LockWorldOriginCall(viewerPose))
        => /\ lastEvent' = "No stabilized pose; cannot lock world origin."
           /\ UNCHANGED <<currentState, worldRoot, stabilizedPose, poseBuffer,
                          stableFramesCount, lockWaitFrames, ui, markerVars,
                          timerVars, xrVars>>]_vars

C10_Witness ==
    /\ lastEvent = "No stabilized pose; cannot lock world origin."
    /\ stabilizedPose.isNull
    /\ currentState = "WORLD_LOCKING"
    /\ ~worldRoot.visible

\* C11: an event that arrives out of order (targetFound outside
\* MINDAR_READY, targetLost outside MINDAR_TRACKING/POSE_STABILIZING, the
\* stabilization completion outside POSE_STABILIZING, a session start result
\* outside WEBXR_STARTING) leaves the phase unchanged and reports an error;
\* a frame outside WORLD_LOCKING never locks.
C11_OutOfOrderRejected ==
    [][/\ \A i \in TargetsInView :
            (currentState # "MINDAR_READY" /\ OnTargetFound(i))
            => /\ currentState' = currentState
               /\ lastEvent' \notin {"none", "start ignored", "session requested",
                                     "Transition Complete."}
       /\ \A i \in TargetsInView :
            (/\ currentState \notin {"MINDAR_TRACKING", "POSE_STABILIZING"}
             /\ OnTargetLost(i))
            => /\ currentState' = currentState
               /\ lastEvent' \notin {"none", "start ignored", "session requested",
                                     "Transition Complete."}
       /\ (currentState # "POSE_STABILIZING" /\ ConfirmTimeoutFired)
          => /\ currentState' = currentState
             /\ lastEvent' \notin {"none", "start ignored", "session requested",
                                   "Transition Complete."}
       /\ (/\ currentState # "WEBXR_STARTING"
           /\ \/ SessionStartSucceeded
              \/ \E userActivation \in BOOLEAN : SessionStartFailed(userActivation))
          => /\ currentState' = currentState
             /\ lastEvent' \notin {"none", "start ignored", "session requested",
                                   "Transition Complete."}
       /\ (/\ currentState # "WORLD_LOCKING"
           /\ \E viewerPose \in ViewerPoses : RenderWebXR(viewerPose))
          => currentState' = currentState]_vars

\* C12: stabilization attempts never interleave: when an attempt begins
\* (targetFound in MINDAR_READY) no interval and no delayed completion of an
\* earlier attempt is scheduled, and a stabilized pose is computed only in
\* POSE_STABILIZING, with no stabilized pose already there.
C12_NoInterleaving ==
    [][/\ (currentState = "MINDAR_READY" /\ currentState' = "POSE_STABILIZING")
          => (~poseStabilizeTimer.active /\ confirmTimeouts = {})
       /\ (stabilizedPose' # stabilizedPose /\ ~stabilizedPose'.isNull)
          => (currentState = "POSE_STABILIZING" /\ stabilizedPose.isNull)]_vars

\* C13: the pose buffer holds no sample right after an abort (targetLost of
\* the active target in POSE_STABILIZING, or the empty-buffer error) and
\* right after finalizeStabilization has produced a stabilized pose.
C13_BufferCleared ==
    [][(\/ currentState = "POSE_STABILIZING" /\ OnTargetLost(mindarAnchor)
        \/ lastEvent' = "No poses buffered!"
        \/ stabilizedPose' # stabilizedPose /\ ~stabilizedPose'.isNull)
       => (poseBuffer'.isNull \/ Len(poseBuffer'.items) = 0)]_vars

\* C14: a stabilized pose exists only in WEBXR_STARTING and WORLD_LOCKING;
\* the step that makes the phase RUNNING finds one and sets it to null, and
\* RUNNING is left only by a reload, so a pose serves at most one lock.
C14_PoseLifetime ==
    /\ [](~stabilizedPose.isNull
          => currentState \in {"WEBXR_STARTING", "WORLD_LOCKING"})
    /\ [][/\ (currentState # "RUNNING" /\ currentState' = "RUNNING")
             => (~stabilizedPose.isNull /\ stabilizedPose'.isNull)
          /\ currentState = "RUNNING"
             => currentState' \in {"RUNNING", "INIT"}]_vars

C14_Witness ==
    /\ currentState = "RUNNING"
    /\ stabilizedPose.isNull
    /\ worldRoot.visible
    /\ sessionActive
    /\ lastEvent = "none"

\* C15: once lockWorldOrigin has placed and shown the content root, no step
\* assigns its position, orientation or visibility again, except the reload
\* that ends the session.
C15_WriteOnce ==
    [][worldRoot.visible
       => (worldRoot' = worldRoot \/ (currentState' = "INIT" /\ ~worldRoot'.exists))]_vars

C15_Witness ==
    /\ currentState = "RUNNING"
    /\ worldRoot.visible
    /\ lastEvent = "TypeError"

C17_BufferIsolation ==
    [][(stabilizedPose' # stabilizedPose /\ ~stabilizedPose'.isNull)
       => /\ currentState = "POSE_STABILIZING"
          /\ ~poseStabilizeTimer.active
          /\ ~poseBuffer.isNull
          /\ stabilizedPose' = AveragePose(poseBuffer.items)]_vars

\* C18: from WEBXR_STARTING on the marker engine is stopped and delivers
\* nothing: no step is a marker frame or a targetFound/targetLost event, the
\* pose buffer gets no sample, and the active target is not changed (until
\* a reload).
C18_EngineSilentAfterStop ==
    /\ [](currentState \in {"WEBXR_STARTING", "WORLD_LOCKING", "RUNNING"}
          => (mindar = "stopped" /\ targetVisible = {}))
    /\ [][(currentState \in {"WEBXR_STARTING", "WORLD_LOCKING", "RUNNING"})
          => /\ ~(\E sample \in Samples : MindARFrame(sample))
             /\ ~(\E i \in TargetsInView : OnTargetFound(i) \/ OnTargetLost(i))
             /\ Len(poseBuffer'.items) <= Len(poseBuffer.items)
             /\ (UNCHANGED <<mindarAnchor, currentTargetIndex>>
                  \/ currentState' = "INIT")]_vars

C18_Witness ==
    /\ currentState = "WEBXR_STARTING"
    /\ mindar = "stopped"
    /\ requestsInFlight = 1
    /\ Len(poseBuffer.items) = MaxBuf

\* C19: a session end in WORLD_LOCKING or RUNNING resets the pipeline to its
\* initial state: phase INIT, empty pose buffer, no stabilized pose, no
\* anchor, no visible content, frame counters zero, start guard cleared, no
\* timer pending.
C19_SessionEndResets ==
    [][(currentState \in {"WORLD_LOCKING", "RUNNING"} /\ SessionEnded)
       => /\ currentState' = "INIT"
          /\ poseBuffer' = Buffer(<<>>)
          /\ stabilizedPose'.isNull
          /\ mindarAnchor' = NullAnchor
          /\ ~worldRoot'.visible
          /\ stableFramesCount' = 0
          /\ lockWaitFrames' = 0
          /\ ~webxrSessionStarting'
          /\ ~sessionActive'
          /\ ~poseStabilizeTimer'.active
          /\ confirmTimeouts' = {}
          /\ ui' = NoUI]_vars

\* a RUNNING session about to end, with every item of the reset list set
C19_Witness ==
    /\ currentState = "RUNNING"
    /\ sessionActive
    /\ ENABLED SessionEnded
    /\ worldRoot.visible
    /\ webxrSessionStarting
    /\ stableFramesCount > 0
    /\ poseBuffer.isNull
    /\ mindarAnchor # NullAnchor
    /\ confirmTimeouts # {}

\* C20: in WORLD_LOCKING a frame without a frame object or without a viewer
\* pose is skipped without fault: nothing is reported, and the phase, both
\* frame counters, the stabilized pose and the content root are unchanged.
C20_PoselessFrameSkipped ==
    [][(currentState = "WORLD_LOCKING" /\ RenderWebXRNoPose)
       => /\ lastEvent' = "none"
          /\ UNCHANGED <<currentState, stableFramesCount, lockWaitFrames,
                         stabilizedPose, worldRoot, poseBuffer>>]_vars

\* WORLD_LOCKING in the middle of a stable run, where a pose-less frame
\* leaves the state as it is
C20_Witness ==
    /\ currentState = "WORLD_LOCKING"
    /\ ENABLED RenderWebXRNoPose
    /\ stableFramesCount = StableFramesThreshold
    /\ lockWaitFrames > stableFramesCount
    /\ lastEvent = "none"
    /\ ~worldRoot.visible

\* C21: a targetLost of a target other than the active one, received in
\* MINDAR_TRACKING or POSE_STABILIZING, leaves the phase, the pose buffer,
\* the stabilization timers, the overlays and the active target unchanged.
C21_OtherTargetLostIgnored ==
    [][\A i \in TargetsInView :
        (/\ currentState \in {"MINDAR_TRACKING", "POSE_STABILIZING"}
         /\ i # mindarAnchor
         /\ OnTargetLost(i))
        => UNCHANGED <<currentState, poseBuffer, poseStabilizeTimer,
                       confirmTimeouts, mindarAnchor, currentTargetIndex, ui,
                       stabilizedPose>>]_vars

\* stabilizing on one target while another one is visible and can be lost
C21_Witness ==
    /\ currentState = "POSE_STABILIZING"
    /\ poseStabilizeTimer.active
    /\ poseStabilizeTimer.progress > 0
    /\ Len(poseBuffer.items) > 0
    /\ \E i \in TargetsInView : i # mindarAnchor /\ ENABLED OnTargetLost(i)

\* C22: a targetFound alone, before any confirming marker frame, does not
\* start stabilization: the phase stays MINDAR_READY, the pose buffer is not
\* reset and no stabilization timer is started, so a target lost right after
\* it was found leaves no trace.
C22_FoundNeedsConfirmation ==
    [][(currentState = "MINDAR_READY" /\ \E i \in TargetsInView : OnTargetFound(i))
       => /\ currentState' = "MINDAR_READY"
          /\ poseBuffer' = poseBuffer
          /\ poseStabilizeTimer' = poseStabilizeTimer]_vars

\* C23: the interval callback that completes the progress computes the
\* stabilized pose and leaves POSE_STABILIZING in that same step, and no
\* sample is added to the pose buffer once the interval has completed.
C23_FinalizeOnCompletion ==
    [][/\ (/\ currentState = "POSE_STABILIZING"
           /\ PoseStabilizeTimerFired
           /\ ~poseStabilizeTimer'.active)
          => (~stabilizedPose'.isNull /\ currentState' # "POSE_STABILIZING")
       /\ Len(poseBuffer'.items) > Len(poseBuffer.items)
          => poseStabilizeTimer.active]_vars

\* C24: the phase changes only along the transition table: INIT to
\* MINDAR_READY, MINDAR_READY to POSE_STABILIZING (through MINDAR_TRACKING
\* within the targetFound handler), POSE_STABILIZING back to MINDAR_READY by
\* an abort, POSE_STABILIZING to WEBXR_STARTING, WEBXR_STARTING to
\* WORLD_LOCKING, WORLD_LOCKING to RUNNING, and to INIT by the reload.
C24_TransitionTable ==
    [][currentState' # currentState
       => \/ <<currentState, currentState'>> \in
                {<<"INIT", "MINDAR_READY">>,
                 <<"MINDAR_READY", "MINDAR_TRACKING">>,
                 <<"MINDAR_TRACKING", "POSE_STABILIZING">>,
                 <<"MINDAR_READY", "POSE_STABILIZING">>,
                 <<"MINDAR_TRACKING", "MINDAR_READY">>,
                 <<"POSE_STABILIZING", "MINDAR_READY">>,
                 <<"POSE_STABILIZING", "WEBXR_STARTING">>,
                 <<"WEBXR_STARTING", "WORLD_LOCKING">>,
                 <<"WORLD_LOCKING", "RUNNING">>}
          \/ currentState' = "INIT" /\ (SessionEnded \/ ExitClick)]_vars

\* C25: no handler ends in an uncaught exception: in particular
\* finalizeStabilization never reads the length of an absent pose buffer.
C25_NoUnhandledFault ==
    lastEvent # "TypeError"

\* C26: the committed anchor position does not depend on the depth (Z) of
\* the marker poses: the position lockWorldOrigin commits is the one it
\* would commit for a stabilized pose twice as deep.
C26_DepthNotUsed ==
    [][\A viewerPose \in ViewerPoses :
        (/\ currentState = "WORLD_LOCKING"
         /\ ~stabilizedPose.isNull
         /\ RenderWebXR(viewerPose)
         /\ currentState' = "RUNNING")
        => LET p      == stabilizedPose.position
               deeper == [stabilizedPose EXCEPT
                             !.position = Vec(<<p.v[1], p.v[2], 2 * p.v[3]>>, p.d)]
           IN  worldRoot'.position =
                   MarkerWorldPos(deeper, viewerPose, currentTargetIndex)]_vars

\* C27: the committed anchor position is never farther than
\* MAX_MARKER_DISTANCE from the viewer position of the locking frame.
C27_DistanceClamp ==
    [][\A viewerPose \in ViewerPoses :
        (/\ currentState = "WORLD_LOCKING"
         /\ RenderWebXR(viewerPose)
         /\ currentState' = "RUNNING")
        => LET w  == worldRoot'.position
               dx == w.v[1] - w.d * viewerPose.position[1]
               dy == w.v[2] - w.d * viewerPose.position[2]
               dz == w.v[3] - w.d * viewerPose.position[3]
           IN  dx * dx + dy * dy + dz * dz
                   <= (MAX_MARKER_DISTANCE * w.d) * (MAX_MARKER_DISTANCE * w.d)]_vars

---------------------------------------------------------------------------
\* finalizeStabilization on its own: the confirm timeout fires in
\* POSE_STABILIZING on a pose buffer of up to MaxSamples samples.

MaxSamples == 3

AverageSamples ==
    [position   : {<<100, 0, 0>>, <<300, 0, 0>>, <<0, 50, -100>>},
     quaternion : {Yaw(0, 1), Yaw(1, 1), Yaw(-1, 2)}]

FinalizeInit ==
    /\ currentState = "POSE_STABILIZING"
    /\ mindar = "running"
    /\ targetVisible = {0}
    /\ mindarAnchor = 0
    /\ currentTargetIndex = 0
    /\ poseBuffer \in {Buffer(items) :
                         items \in UNION {[1 .. n -> AverageSamples] :
                                             n \in 0 .. MaxSamples}}
    /\ poseStabilizeTimer =
           [active |-> FALSE, due |-> FALSE, progress |-> TicksToComplete]
    /\ confirmTimeouts = {ConfirmTicks}
    /\ stabilizedPose = NullPose
    /\ webxrSessionStarting = FALSE
    /\ pendingWebXRStart = FALSE
    /\ requestsInFlight = 0
    /\ sessionActive = FALSE
    /\ stableFramesCount = 0
    /\ lockWaitFrames = 0
    /\ worldRoot = NoWorldRoot
    /\ ui = [NoUI EXCEPT !.overlay = FALSE, !.transition = TRUE]
    /\ xrSupported = TRUE
    /\ lastEvent = "none"

FinalizeNext == ConfirmTimeoutFired

FinalizeSpec == FinalizeInit /\ [][FinalizeNext]_vars

\* C28: the stabilized position is the component-wise arithmetic mean of
\* the buffered positions (n times the mean is their sum), whatever the
\* order of the samples in the buffer.
C28_MeanPosition ==
    [][(ConfirmTimeoutFired /\ Len(poseBuffer.items) > 0)
       => LET items == poseBuffer.items
              n     == Len(items)
              sum   == SumPositions(items)
              p     == stabilizedPose'.position
          IN  /\ \A c \in 1 .. 3 : n * p.v[c] = p.d * sum[c]
              /\ p.d > 0
              /\ \A f \in Permutations(1 .. n) :
                    AveragePose([i \in 1 .. n |-> items[f[i]]]).position = p]_vars

\* the mean of (1, 0, 0) and (3, 0, 0), in centimetres
C28_Witness ==
    /\ currentState = "WEBXR_STARTING"
    /\ Len(poseBuffer.items) = 2
    /\ poseBuffer.items[1].position = <<100, 0, 0>>
    /\ poseBuffer.items[2].position = <<300, 0, 0>>
    /\ stabilizedPose.position = [v |-> <<200, 0, 0>>, d |-> 1]

\* C29: the stabilized orientation starts from the first buffered
\* orientation and, for the sample at zero-based index i, is the spherical
\* interpolation of the orientation of the first i samples toward that
\* sample by 1/(i+1); N identical orientations give that orientation back.
C29_SlerpFold ==
    [][(ConfirmTimeoutFired /\ Len(poseBuffer.items) > 0)
       => LET items == poseBuffer.items
              n     == Len(items)
              q     == stabilizedPose'.quaternion
          IN  /\ n = 1 => q = items[1].quaternion
              /\ n > 1 => q = Slerp(AveragePose(SubSeq(items, 1, n - 1)).quaternion,
                                    items[n].quaternion, n)
              /\ (\A i \in 1 .. n : items[i].quaternion = items[1].quaternion)
                    => q = items[1].quaternion]_vars

\* three samples of one orientation, and three whose orientations differ
C29_Witness ==
    /\ currentState = "WEBXR_STARTING"
    /\ Len(poseBuffer.items) = 3
    /\ \/ /\ \A i \in 1 .. 3 : poseBuffer.items[i].quaternion = Yaw(1, 1)
          /\ stabilizedPose.quaternion = Yaw(1, 1)
       \/ /\ poseBuffer.items[1].quaternion = Yaw(0, 1)
          /\ poseBuffer.items[2].quaternion = Yaw(1, 1)
          /\ poseBuffer.items[3].quaternion = Yaw(-1, 2)
          /\ stabilizedPose.quaternion = Yaw(1, 6)

---------------------------------------------------------------------------
\* lockWorldOrigin's transform on orientations that carry pitch and roll:
\* the rotations by whole quarter turns about the three axes, each written
\* as the images <<right, up, forward>> of the X, Y and Z axes.

Dot(a, b) == a[1] * b[1] + a[2] * b[2] + a[3] * b[3]

\* THREE.Vector3.crossVectors
Cross(a, b) ==
    <<a[2] * b[3] - a[3] * b[2],
      a[3] * b[1] - a[1] * b[3],
      a[1] * b[2] - a[2] * b[1]>>

Axes ==
    {<<1, 0, 0>>, <<-1, 0, 0>>, <<0, 1, 0>>, <<0, -1, 0>>, <<0, 0, 1>>, <<0, 0, -1>>}

CubeRotations ==
    {<<p[1], p[2], Cross(p[1], p[2])>> :
        p \in {q \in Axes \X Axes : Dot(q[1], q[2]) = 0}}

\* THREE.Vector3.applyQuaternion
ApplyQuaternion(v, m) ==
    <<v[1] * m[1][1] + v[2] * m[2][1] + v[3] * m[3][1],
      v[1] * m[1][2] + v[2] * m[2][2] + v[3] * m[3][2],
      v[1] * m[1][3] + v[2] * m[2][3] + v[3] * m[3][3]>>

\* THREE.Quaternion.multiply: a * b turns by b first
Multiply(a, b) ==
    <<ApplyQuaternion(b[1], a), ApplyQuaternion(b[2], a), ApplyQuaternion(b[3], a)>>

\* the gravity+board branch: the marker normal (FLIP_MARKER_Z: +Z) projected
\* on the horizontal plane, (0, 0, -1) when nothing is left of it, and the
\* basis made of it and the vertical
GravityBoardBasis(markerWorldRot) ==
    LET forward          == ApplyQuaternion(<<0, 0, 1>>, markerWorldRot)
        up               == <<0, 1, 0>>
        projected        == <<forward[1], 0, forward[3]>>
        fwd              == IF Dot(projected, projected) = 0
                            THEN <<0, 0, -1>>
                            ELSE projected
        right            == Cross(up, fwd)
        correctedForward == Cross(right, up)
    IN  <<right, up, correctedForward>>

ALIGN_MODE_Full == "full"

ALIGN_MODE == "gravity+board"

\* finalRotation, with USE_GRAVITY_ALIGN = true
FinalRotation(mode, markerWorldRot) ==
    IF mode = "full" THEN markerWorldRot ELSE GravityBoardBasis(markerWorldRot)

\* the position and orientation lockWorldOrigin writes to the world root
LockTransform(mode, pose, viewerPose, idx) ==
    LET relPos           == pose.position.v
        targetToOrigin   == <<0, -TargetOffsetY(idx), 0>>
        offset           == ApplyQuaternion(targetToOrigin, pose.quaternion)
        originInCamSpace == <<relPos[1] + offset[1], relPos[2] + offset[2],
                              relPos[3] + offset[3]>>
        turned           == ApplyQuaternion(originInCamSpace, viewerPose.orientation)
        cam              == viewerPose.position
        markerWorldRot   == Multiply(viewerPose.orientation, pose.quaternion)
    IN  [position   |-> Vec(<<cam[1] + turned[1],
                              cam[2] + turned[2] + WORLD_Y_OFFSET,
                              cam[3] + turned[3]>>, 1),
         quaternion |-> FinalRotation(mode, markerWorldRot)]

AlignViewerPoses ==
    [position : {<<0, 0, 0>>, <<10, 150, 0>>}, orientation : CubeRotations]

AlignInit ==
    /\ currentState = "WORLD_LOCKING"
    /\ mindar = "stopped"
    /\ targetVisible = {}
    /\ currentTargetIndex \in Targets
    /\ mindarAnchor = currentTargetIndex
    /\ \E relPos \in {<<0, 0, -100>>, <<20, 10, -200>>}, relQuat \in CubeRotations :
          /\ poseBuffer = Buffer(<<[position |-> relPos, quaternion |-> relQuat]>>)
          /\ stabilizedPose = [isNull     |-> FALSE,
                               position   |-> Vec(relPos, 1),
                               quaternion |-> relQuat]
    /\ poseStabilizeTimer = IdleTimer
    /\ confirmTimeouts = {}
    /\ webxrSessionStarting = TRUE
    /\ pendingWebXRStart = FALSE
    /\ requestsInFlight = 0
    /\ sessionActive = TRUE
    /\ stableFramesCount = StableFramesThreshold + 1
    /\ lockWaitFrames = StableFramesThreshold + 1
    /\ worldRoot = FreshWorldRoot
    /\ ui = [NoUI EXCEPT !.overlay = FALSE, !.transition = TRUE]
    /\ xrSupported = TRUE
    /\ lastEvent = "none"

AlignLock(viewerPose) ==
    /\ currentState = "WORLD_LOCKING"
    /\ ~stabilizedPose.isNull
    /\ lockWaitFrames' = 0
    /\ worldRoot' =
           LET t == LockTransform(ALIGN_MODE, stabilizedPose, viewerPose,
                                  currentTargetIndex)
           IN  [exists     |-> TRUE,
                position   |-> t.position,
                quaternion |-> t.quaternion,
                visible    |-> TRUE]
    /\ ui' = [ui EXCEPT !.transition = FALSE, !.runtime = TRUE]
    /\ currentState' = "RUNNING"
    /\ stabilizedPose' = NullPose
    /\ poseBuffer' = NullBuffer
    /\ lastEvent' = "Transition Complete."
    /\ UNCHANGED <<markerVars, timerVars, xrVars, stableFramesCount, xrSupported>>

AlignNext == \E viewerPose \in AlignViewerPoses : AlignLock(viewerPose)

AlignSpec == AlignInit /\ [][AlignNext]_vars

\* C30: in gravity+board mode the committed orientation is a rotation about
\* the vertical axis: it keeps the vertical, its forward and right axes have
\* no vertical component, its forward axis is the horizontal part of the
\* composed orientation's forward axis when there is one; and the committed
\* position is the one full mode commits for the same inputs.
C30_YawOnly ==
    [][\A viewerPose \in AlignViewerPoses :
        AlignLock(viewerPose)
        => LET q        == worldRoot'.quaternion
               full     == LockTransform("full", stabilizedPose, viewerPose,
                                         currentTargetIndex)
               composed == full.quaternion
           IN  /\ q[2] = <<0, 1, 0>>
               /\ q[3][2] = 0
               /\ q[1][2] = 0
               /\ Dot(q[3], q[3]) = 1
               /\ Cross(q[1], q[2]) = q[3]
               /\ composed[3][2] = 0 => q[3] = composed[3]
               /\ worldRoot'.position = full.position]_vars

\* a marker lying flat (pitched a quarter turn) 1 m ahead of an upright
\* viewer at the origin: the 29 cm offset of target 0 lands on the depth
\* axis, and the orientation falls back to facing -Z
C30_Witness ==
    /\ currentState = "RUNNING"
    /\ worldRoot.visible
    /\ worldRoot.position = [v |-> <<0, 0, -71>>, d |-> 1]
    /\ worldRoot.quaternion = <<<<-1, 0, 0>>, <<0, 1, 0>>, <<0, 0, -1>>>>

\* C31: with exactly one buffered sample the stabilized pose is that sample:
\* its position (the sum divided by one) and its orientation, which no
\* interpolation has moved.
C31_SingleSample ==
    [][(ConfirmTimeoutFired /\ Len(poseBuffer.items) = 1)
       => /\ ~stabilizedPose'.isNull
          /\ stabilizedPose'.position =
                 [v |-> poseBuffer.items[1].position, d |-> 1]
          /\ stabilizedPose'.quaternion = poseBuffer.items[1].quaternion]_vars

\* one sample turned a quarter, finalized
C31_Witness ==
    /\ currentState = "WEBXR_STARTING"
    /\ Len(poseBuffer.items) = 1
    /\ poseBuffer.items[1].quaternion = Yaw(1, 1)
    /\ poseBuffer.items[1].position = <<300, 0, 0>>
    /\ stabilizedPose.quaternion = Yaw(1, 1)
    /\ stabilizedPose.position = [v |-> <<300, 0, 0>>, d |-> 1]

\* C32: when cancelPoseStabilization returns (called by the targetLost of
\* the active target, or by the empty-buffer error) the stabilizer is idle:
\* no interval is running, no completion callback is pending and the pose
\* buffer holds no sample; the call itself changes no stabilized pose and,
\* on the empty-buffer path, no phase.
C32_CancelLeavesIdle ==
    [][/\ \A i \in TargetsInView :
            (/\ currentState \in {"MINDAR_TRACKING", "POSE_STABILIZING"}
             /\ mindarAnchor = i
             /\ OnTargetLost(i))
            => /\ ~poseStabilizeTimer'.active
               /\ confirmTimeouts' = {}
               /\ (poseBuffer'.isNull \/ Len(poseBuffer'.items) = 0)
               /\ stabilizedPose' = stabilizedPose
       /\ lastEvent' = "No poses buffered!"
            => /\ ~poseStabilizeTimer'.active
               /\ confirmTimeouts' = {}
               /\ (poseBuffer'.isNull \/ Len(poseBuffer'.items) = 0)
               /\ stabilizedPose' = stabilizedPose
               /\ currentState' = currentState]_vars

\* C33: the phase is MINDAR_READY only with a running marker engine: after
\* a failure to create or to start the engine the phase is not MINDAR_READY.
C33_ReadyMeansEngineRunning ==
    /\ lastEvent \in {"MindAR Init Failed", "MindAR Start Failed"}
          => currentState # "MINDAR_READY"
    /\ currentState = "MINDAR_READY" => mindar = "running"

\* C34: a targetFound of any target received while the phase is not
\* MINDAR_READY is ignored: the phase, the active target, the pose buffer,
\* the stabilization timer, the pending completion and the stabilized pose
\* stay as they are, so one target at a time is the anchor candidate.
C34_FoundIgnoredOutsideReady ==
    [][\A i \in TargetsInView :
        (currentState # "MINDAR_READY" /\ OnTargetFound(i))
        => UNCHANGED <<currentState, currentTargetIndex, mindarAnchor,
                       poseBuffer, poseStabilizeTimer, confirmTimeouts,
                       stabilizedPose, ui>>]_vars

\* target 1 has come into view while target 0 is being stabilized
C34_Witness ==
    /\ currentState = "POSE_STABILIZING"
    /\ mindarAnchor = 0
    /\ currentTargetIndex = 0
    /\ targetVisible = {0, 1}
    /\ poseStabilizeTimer.active
    /\ poseStabilizeTimer.progress > 0
    /\ Len(poseBuffer.items) > 0

===========================================================================
